---- MODULE Spec2Model ----
(***************************************************************************)
(* Weather ingestion pipeline: the Airflow DAG fetch_weather_data          *)
(* (airflow/dags/weather_data_dag.py), the Open-Meteo client and the       *)
(* warehouse helpers it calls (scripts/weather_api.py,                     *)
(* airflow/dags/db_utils_airflow.py).                                      *)
(*                                                                         *)
(* Three specifications share the variables:                               *)
(*   Spec        one DAG run, tasks scheduled by Airflow with the DAG's    *)
(*               default_args (retries = 2); the API answers with bodies   *)
(*               of every shape and value, and fails with HTTP errors;     *)
(*   SpecClient  one call of fetch_weather_for_multiple_locations on an    *)
(*               arbitrary location list and retry_attempts; the API       *)
(*               answers with bodies of every shape and fails with both    *)
(*               kinds of RequestException;                                *)
(*   SpecStore   save_weather_to_database(df, engine, 'replace') called    *)
(*               twice in a row with the same DataFrame.                   *)
(***************************************************************************)
EXTENDS Integers, Sequences, FiniteSets, TLC

\* ---------------------------------------------------------------- bounds
MaxOutlets == 2          \* ids of raw.outlet are 1..MaxOutlets
MaxHours == 1            \* hourly entries of one API response
MaxLocations == 2        \* length of the location list handed to the client
MaxRetryAttempts == 3    \* retry_attempts of a client drawn from 1..this
MaxStoreCalls == 2       \* successive save_weather_to_database calls
MaxRows == 2               \* rows of raw.weather when stage 4 is run on its own
MaxDbFaults == 1         \* warehouse statements that raise in one behaviour
MaxFiles == 2            \* CSV files of CSV_TABLE_MAPPING
MaxCsvRows == 1          \* data rows of a CSV file, rows of a raw table before a load

\* ------------------------------------------------------ program constants
Retries == 2             \* DEFAULT_ARGS['retries']
DagRetryAttempts == 3    \* WeatherAPIClient(retry_attempts=3, ...)
TempMin == -50
TempMax == 60
HumMin == 0
HumMax == 100
WindMin == 0
WindMax == 200
LatMin == -90
LatMax == 90
LonMin == -180
LonMax == 180

\* ------------------------------------------------------------ SQL values
\* A nullable SQL / pandas value: <<>> is NULL (None, NaN, NaT), <<v>> is v.
NULL == <<>>
Some(v) == <<v>>
IsNull(x) == x = NULL
Val(x) == x[1]

WEATHER_METRICS == <<"temperature_2m", "relative_humidity_2m", "wind_speed_10m">>

OutletIds == 1..MaxOutlets
\* An id no row of raw.outlet carries (an outlet deleted since an earlier run).
OrphanId == MaxOutlets + 1

Row(o, t, temp, hum, wind) ==
    [outlet_id |-> o, datetime |-> t, temperature_2m |-> temp,
     relative_humidity_2m |-> hum, wind_speed_10m |-> wind]

\* ------------------------------------------------------------ raw.outlet
\* raw.outlet is a set of rows [id, latitude, longitude], id unique,
\* latitude and longitude nullable.
OutletCoords ==
    { <<NULL, Some(10)>>, <<Some(0), Some(0)>>, <<Some(0), Some(10)>>,
      <<Some(91), Some(10)>> }

OutletTables ==
    UNION { { { [id |-> i, latitude |-> f[i][1], longitude |-> f[i][2]] : i \in S }
              : f \in [S -> OutletCoords] } : S \in SUBSET OutletIds }

\* Mutant: the count is returned whether or not the query raised.
get_table_count_unchecked(n, queryFails) == n
\* get_table_count: SELECT COUNT(*) of the table (n rows), or 0 when the
\* query raises (the except branch logs and returns 0).
get_table_count(n, queryFails) == IF queryFails THEN 0 ELSE n

RECURSIVE OutletRowsFrom(_, _)
OutletRowsFrom(tbl, i) ==
    IF i > MaxOutlets THEN <<>>
    ELSE LET hit == { r \in tbl : r.id = i /\ ~IsNull(r.latitude)
                                            /\ ~IsNull(r.longitude) }
         IN  (IF hit = {} THEN <<>>
              ELSE LET r == CHOOSE x \in hit : TRUE
                   IN  << [outlet_id |-> r.id, latitude |-> Val(r.latitude),
                           longitude |-> Val(r.longitude)] >>)
             \o OutletRowsFrom(tbl, i + 1)

\* get_outlets_from_database: WHERE latitude IS NOT NULL AND longitude IS NOT
\* NULL ORDER BY id, each row made a dict with float coordinates.
get_outlets_from_database(tbl) == OutletRowsFrom(tbl, 1)

\* Mutant: the list comprehension keeps every location.
valid_locations_unfiltered(locs) == locs
\* [loc for loc in locations if not (latitude == 0 and longitude == 0)]
valid_locations(locs) ==
    SelectSeq(locs, LAMBDA loc : ~(loc.latitude = 0 /\ loc.longitude = 0))

\* -------------------------------------------------------- Open-Meteo API
\* The JSON body of a 200 response: its "hourly" object as the set of keys
\* present and the array under each key.
HourlyKeys == {"time"} \cup { WEATHER_METRICS[i] : i \in DOMAIN WEATHER_METRICS }

GoodValue(k, i, hi) ==
    CASE k = "time" -> Some(i)
      [] k = "temperature_2m" -> Some(IF hi THEN TempMax ELSE TempMin)
      [] k = "relative_humidity_2m" -> Some(IF hi THEN HumMax ELSE HumMin)
      [] k = "wind_speed_10m" -> Some(IF hi THEN WindMax ELSE WindMin)

\* n hourly entries, every value on the lower (hi = FALSE) or upper bound of
\* its valid range.
Good(n, hi) ==
    [keys |-> HourlyKeys,
     col  |-> [k \in HourlyKeys |-> [i \in 1..n |-> GoodValue(k, i, hi)]]]

\* Good(n, FALSE) with the last entry of array k replaced by v.
WithCell(n, k, v) ==
    [keys |-> HourlyKeys,
     col  |-> [c \in HourlyKeys |->
                 [i \in 1..n |-> IF i = n /\ c = k THEN v
                                 ELSE GoodValue(c, i, FALSE)]]]

DefectCells ==
    { <<"time", NULL>>,
      <<"temperature_2m", NULL>>,
      <<"temperature_2m", Some(TempMin - 1)>>,
      <<"temperature_2m", Some(TempMax + 1)>>,
      <<"relative_humidity_2m", NULL>>,
      <<"relative_humidity_2m", Some(HumMin - 1)>>,
      <<"relative_humidity_2m", Some(HumMax + 1)>>,
      <<"wind_speed_10m", NULL>>,
      <<"wind_speed_10m", Some(WindMin - 1)>>,
      <<"wind_speed_10m", Some(WindMax + 1)>> }

\* A response that lacks key k altogether.
WithoutKey(r, k) == [r EXCEPT !.keys = @ \ {k}]

\* A response whose array k is one entry shorter than the time array.
ShortColumn(r, k) ==
    [r EXCEPT !.col[k] = SubSeq(@, 1, Len(@) - 1)]

\* A body with no "hourly" object at all.
NoHourly == [keys |-> {}, col |-> [k \in HourlyKeys |-> <<>>]]

\* Responses that differ in shape only (what the client's parsing sees).
ShapeResponses ==
    { Good(n, FALSE) : n \in 0..MaxHours }
    \cup { WithoutKey(Good(MaxHours, FALSE), "wind_speed_10m"),
           WithoutKey(Good(0, FALSE), "wind_speed_10m"),
           ShortColumn(Good(MaxHours, FALSE), "relative_humidity_2m"),
           NoHourly }

\* The defects an API response carries into a DAG run: one for each kind of
\* check of validate_weather_data_task (NULL in a critical column, NULL in an
\* optional column, a value below a range, a value above a range).
ApiDefectCells ==
    { c \in DefectCells :
        c \notin { <<"relative_humidity_2m", NULL>>,
                   <<"relative_humidity_2m", Some(HumMin - 1)>>,
                   <<"wind_speed_10m", Some(WindMax + 1)>> } }

\* Responses that differ in the values of their last hourly entry.
ValueResponses ==
    { Good(MaxHours, TRUE) }
    \cup { WithCell(MaxHours, c[1], c[2]) : c \in ApiDefectCells }

Responses == ShapeResponses \cup ValueResponses

\* dict.get(key, default)
Get(r, k, default) == IF k \in r.keys THEN r.col[k] ELSE default

\* _parse_response: hourly_data.get("time", []) and hourly_data.get(metric, [])
\* per metric become the columns of one DataFrame; pandas raises ValueError
\* ("All arrays must be of the same length") when they differ in length.
parse_response(r) ==
    LET time == Get(r, "time", <<>>)
        cols == [k \in HourlyKeys \ {"time"} |-> Get(r, k, <<>>)]
    IN  IF \E k \in DOMAIN cols : Len(cols[k]) # Len(time)
        THEN [ok |-> FALSE, rows |-> <<>>]
        ELSE [ok |-> TRUE,
              rows |-> [i \in 1..Len(time) |->
                          [datetime |-> time[i],
                           temperature_2m |-> cols["temperature_2m"][i],
                           relative_humidity_2m |-> cols["relative_humidity_2m"][i],
                           wind_speed_10m |-> cols["wind_speed_10m"][i]]]]

\* df.insert(0, "outlet_id", outlet_id)
insert_outlet_id(rows, outlet_id) ==
    [i \in 1..Len(rows) |->
       Row(Some(outlet_id), rows[i].datetime, rows[i].temperature_2m,
           rows[i].relative_humidity_2m, rows[i].wind_speed_10m)]

\* Mutant: the bounds themselves are rejected.
validate_coordinates_exclusive(latitude, longitude) ==
    /\ LatMin < latitude /\ latitude < LatMax
    /\ LonMin < longitude /\ longitude < LonMax
\* _validate_coordinates: TRUE when neither range check raises.
validate_coordinates(latitude, longitude) ==
    /\ LatMin <= latitude /\ latitude <= LatMax
    /\ LonMin <= longitude /\ longitude <= LonMax

RECURSIVE concat_reversed(_)
\* Mutant: the DataFrames are concatenated last first.
concat_reversed(dfs) ==
    IF dfs = <<>> THEN <<>> ELSE concat_reversed(Tail(dfs)) \o Head(dfs)
RECURSIVE concat(_)
\* pd.concat(all_data, ignore_index=True)
concat(dfs) == IF dfs = <<>> THEN <<>> ELSE Head(dfs) \o concat(Tail(dfs))

\* df.to_json() (orient "columns": every column a dict keyed by the row index)
\* and pd.read_json of it, which restores the rows in index order.
to_json(df) ==
    [c \in {"outlet_id", "datetime", "temperature_2m", "relative_humidity_2m",
            "wind_speed_10m"} |-> [i \in 0..(Len(df) - 1) |-> df[i + 1][c]]]
read_json(js) ==
    LET n == Cardinality(DOMAIN js["outlet_id"])
    IN  [i \in 1..n |->
           Row(js["outlet_id"][i - 1], js["datetime"][i - 1],
               js["temperature_2m"][i - 1], js["relative_humidity_2m"][i - 1],
               js["wind_speed_10m"][i - 1])]

\* --------------------------------------------------- warehouse operations
\* raw.weather is the sequence of its rows in insertion order.

\* Mutant: the TRUNCATE shares the transaction of the insert and is not yet
\* committed when the insert begins.
truncate_weather_deferred(tbl, fails) == tbl
\* TRUNCATE TABLE raw.weather in its own transaction (engine.begin()): the
\* table is emptied and committed, or the statement raises and nothing changes.
truncate_weather(tbl, fails) == IF fails THEN tbl ELSE <<>>

\* df.to_sql(name="weather", if_exists="append", ...): all chunks are inserted
\* in one transaction, so the rows are appended or, on an error, none is.
to_sql_append(tbl, df, fails) == IF fails THEN tbl ELSE tbl \o df

\* COUNT(*) FILTER (WHERE <column> IS NULL)
null_count(tbl, column) ==
    Cardinality({ i \in DOMAIN tbl : IsNull(tbl[i][column]) })

\* Mutant: <= lo OR >= hi, a value on a bound is counted.
bad_count_on_bound(tbl, column, lo, hi) ==
    Cardinality({ i \in DOMAIN tbl :
                    /\ ~IsNull(tbl[i][column])
                    /\ (Val(tbl[i][column]) <= lo \/ Val(tbl[i][column]) >= hi) })
\* Mutant: a NULL is counted as a value out of range.
bad_count_null_counted(tbl, column, lo, hi) ==
    Cardinality({ i \in DOMAIN tbl :
                    \/ IsNull(tbl[i][column])
                    \/ Val(tbl[i][column]) < lo
                    \/ Val(tbl[i][column]) > hi })
\* COUNT(*) FILTER (WHERE <column> < lo OR <column> > hi); a NULL compares to
\* NULL and is not counted.
bad_count(tbl, column, lo, hi) ==
    Cardinality({ i \in DOMAIN tbl :
                    /\ ~IsNull(tbl[i][column])
                    /\ (Val(tbl[i][column]) < lo \/ Val(tbl[i][column]) > hi) })

\* Mutant: only the upper bound of the temperature range is tested.
bad_temp_upper_only(tbl) ==
    Cardinality({ i \in DOMAIN tbl :
                    /\ ~IsNull(tbl[i].temperature_2m)
                    /\ Val(tbl[i].temperature_2m) > TempMax })
bad_temp(tbl) == bad_count(tbl, "temperature_2m", TempMin, TempMax)
bad_humidity(tbl) == bad_count(tbl, "relative_humidity_2m", HumMin, HumMax)
bad_wind(tbl) == bad_count(tbl, "wind_speed_10m", WindMin, WindMax)

\* Mutant: COUNT(DISTINCT w.outlet_id).
orphan_count_distinct(tbl, outl) ==
    Cardinality({ tbl[i].outlet_id : i \in { j \in DOMAIN tbl :
                    ~\E o \in outl : tbl[j].outlet_id = Some(o.id) } })
\* SELECT COUNT(*) FROM raw.weather w LEFT JOIN raw.outlet o
\*   ON w.outlet_id = o.id WHERE o.id IS NULL
orphan_count(tbl, outl) ==
    Cardinality({ i \in DOMAIN tbl :
                    ~\E o \in outl : tbl[i].outlet_id = Some(o.id) })

\* Mutant: the difference is reported with its sign.
Abs_signed(x) == x
Abs(x) == IF x < 0 THEN -x ELSE x

\* Mutant: "if fetched_count is not None and ...", 0 is compared too.
Truthy_not_none(x) == ~IsNull(x)
\* "if fetched_count and ...": an absent XCom (None) and 0 are falsy.
Truthy(x) == ~IsNull(x) /\ Val(x) # 0

\* The checks of validate_weather_data_task, numbered as in the check table:
\* 1 record count, 2-4 NULL outlet_id / datetime / temperature, 5 NULL
\* humidity or wind speed (warning only), 6-8 ranges, 9 orphan outlet_id.
HardChecks == {1, 2, 3, 4, 6, 7, 8, 9}
AllChecks == 1..9

Outcome(kind, n, evaluated, warned) ==
    [kind |-> kind, count |-> n, evaluated |-> evaluated, warned |-> warned]

\* Mutant: the orphan query is run before the NULL and range queries.
validate_weather_data_orphans_first(tbl, outl, fetched_count, qfail) ==
    LET weather_count == get_table_count(Len(tbl), qfail = 1)
        counted == IF Truthy(fetched_count) THEN {1} ELSE {}
        warned  == null_count(tbl, "relative_humidity_2m") > 0
                   \/ null_count(tbl, "wind_speed_10m") > 0
    IN  IF weather_count = 0
          THEN Outcome("NoWeatherData", 0, {}, FALSE)
        ELSE IF Truthy(fetched_count) /\ weather_count # Val(fetched_count)
          THEN Outcome("RecordCountMismatch",
                       Abs(Val(fetched_count) - weather_count), {1}, FALSE)
        ELSE IF qfail = 5
          THEN Outcome("DatabaseError", 0, counted, FALSE)
        ELSE IF orphan_count(tbl, outl) > 0
          THEN Outcome("OrphanReference", orphan_count(tbl, outl),
                       counted \cup {9}, FALSE)
        ELSE IF qfail = 2
          THEN Outcome("DatabaseError", 0, counted \cup {9}, FALSE)
        ELSE IF null_count(tbl, "outlet_id") > 0
          THEN Outcome("NullViolation(outlet_id)", null_count(tbl, "outlet_id"),
                       counted \cup {2, 3, 4, 5, 9}, FALSE)
        ELSE IF null_count(tbl, "datetime") > 0
          THEN Outcome("NullViolation(timestamp)", null_count(tbl, "datetime"),
                       counted \cup {2, 3, 4, 5, 9}, FALSE)
        ELSE IF null_count(tbl, "temperature_2m") > 0
          THEN Outcome("NullViolation(temperature)",
                       null_count(tbl, "temperature_2m"),
                       counted \cup {2, 3, 4, 5, 9}, FALSE)
        ELSE IF qfail \in {3, 4}
          THEN Outcome("DatabaseError", 0, counted \cup {2, 3, 4, 5, 9}, warned)
        ELSE IF bad_temp(tbl) > 0
          THEN Outcome("RangeViolation(temperature)", bad_temp(tbl),
                       counted \cup (AllChecks \ {1}), warned)
        ELSE IF bad_humidity(tbl) > 0
          THEN Outcome("RangeViolation(humidity)", bad_humidity(tbl),
                       counted \cup (AllChecks \ {1}), warned)
        ELSE IF bad_wind(tbl) > 0
          THEN Outcome("RangeViolation(wind_speed)", bad_wind(tbl),
                       counted \cup (AllChecks \ {1}), warned)
        ELSE Outcome("Passed", 0, counted \cup (AllChecks \ {1}), warned)

\* The body of validate_weather_data_task on table tbl, outlet relation outl
\* and the XCom return value of fetch_weather_data. qfail is the query that
\* raises a database error: 0 none, 1 the row count (get_table_count then
\* returns 0), 2 the NULL query, 3 the date-range query, 4 the range query,
\* 5 the orphan query.
validate_weather_data(tbl, outl, fetched_count, qfail) ==
    LET weather_count == get_table_count(Len(tbl), qfail = 1)
        counted == IF Truthy(fetched_count) THEN {1} ELSE {}
        warned  == null_count(tbl, "relative_humidity_2m") > 0
                   \/ null_count(tbl, "wind_speed_10m") > 0
    IN  IF weather_count = 0
          THEN Outcome("NoWeatherData", 0, {}, FALSE)
        ELSE IF Truthy(fetched_count) /\ weather_count # Val(fetched_count)
          THEN Outcome("RecordCountMismatch",
                       Abs(Val(fetched_count) - weather_count), {1}, FALSE)
        ELSE IF qfail = 2
          THEN Outcome("DatabaseError", 0, counted, FALSE)
        ELSE IF null_count(tbl, "outlet_id") > 0
          THEN Outcome("NullViolation(outlet_id)", null_count(tbl, "outlet_id"),
                       counted \cup {2, 3, 4, 5}, FALSE)
        ELSE IF null_count(tbl, "datetime") > 0
          THEN Outcome("NullViolation(timestamp)", null_count(tbl, "datetime"),
                       counted \cup {2, 3, 4, 5}, FALSE)
        ELSE IF null_count(tbl, "temperature_2m") > 0
          THEN Outcome("NullViolation(temperature)",
                       null_count(tbl, "temperature_2m"),
                       counted \cup {2, 3, 4, 5}, FALSE)
        ELSE IF qfail \in {3, 4}
          THEN Outcome("DatabaseError", 0, counted \cup {2, 3, 4, 5}, warned)
        ELSE IF bad_temp(tbl) > 0
          THEN Outcome("RangeViolation(temperature)", bad_temp(tbl),
                       counted \cup {2, 3, 4, 5, 6, 7, 8}, warned)
        ELSE IF bad_humidity(tbl) > 0
          THEN Outcome("RangeViolation(humidity)", bad_humidity(tbl),
                       counted \cup {2, 3, 4, 5, 6, 7, 8}, warned)
        ELSE IF bad_wind(tbl) > 0
          THEN Outcome("RangeViolation(wind_speed)", bad_wind(tbl),
                       counted \cup {2, 3, 4, 5, 6, 7, 8}, warned)
        ELSE IF qfail = 5
          THEN Outcome("DatabaseError", 0, counted \cup {2, 3, 4, 5, 6, 7, 8},
                       warned)
        ELSE IF orphan_count(tbl, outl) > 0
          THEN Outcome("OrphanReference", orphan_count(tbl, outl),
                       counted \cup (AllChecks \ {1}), warned)
        ELSE Outcome("Passed", 0, counted \cup (AllChecks \ {1}), warned)

\* ------------------------------------------------------------------ state
VARIABLES
    outlet,          \* raw.outlet
    weather,         \* raw.weather
    server,          \* the API: the bodies and the errors a request can end with
    db_faults,       \* warehouse statements that raised so far
    state,           \* Airflow task instance state, per task
    try_number,      \* Airflow try_number of the task instance last started
    error,           \* the exception the task's last try raised, per task
    xcom,            \* XCom values pushed in this DAG run
    report,          \* outcome of the last try of validate_weather_data
    retry_attempts,  \* WeatherAPIClient.retry_attempts
    locations,       \* fetch_weather_for_multiple_locations: its argument
    idx,             \*   loop index (enumerate(locations, 1))
    all_data,        \*   DataFrames appended so far
    fpc,             \*   where the call stands
    result,          \*   its return value
    attempt,         \* _make_request_with_retry: loop variable
    last_exception,  \*   last_exception
    call,            \* the current / last fetch_weather_data call, observed
    inter_sleeps,    \* time.sleep(delay_between_requests) calls
    attempted,       \* locations not skipped so far
    rows_fetched,    \* rows of the DataFrames fetch_weather_data returned
    spc,             \* save_weather_to_database: where the call stands
    store_log,       \* the save_weather_to_database calls made, observed
    data_dir,        \* load_csv_data.py: the data directory and its CSV files
    raw_tables,      \*   rows in the raw table of each file of the mapping
    opt_truncate,    \*   args.truncate
    lpc,             \*   where main stands
    file_no,         \*   load_all_csv_files: loop index
    results,         \*   results, in the order of the mapping
    success_count,   \*   success_count
    error_count,     \*   error_count
    exit_status      \*   the status the process exited with

dbVars == <<outlet, weather>>
envVars == <<server, db_faults>>
airflowVars == <<state, try_number, error, xcom>>
clientVars == <<retry_attempts, locations, idx, all_data, fpc, result,
                attempt, last_exception>>
obsVars == <<call, inter_sleeps, attempted, rows_fetched>>
storeVars == <<spc, store_log>>
loaderVars == <<data_dir, raw_tables, opt_truncate, lpc, file_no, results,
                success_count, error_count, exit_status>>
vars == <<outlet, weather, server, db_faults, state, try_number, error, xcom,
          report, retry_attempts, locations, idx, all_data, fpc, result,
          attempt, last_exception, call, inter_sleeps, attempted, rows_fetched,
          spc, store_log, data_dir, raw_tables, opt_truncate, lpc, file_no,
          results, success_count, error_count, exit_status>>

\* ------------------------------------------------------------ Airflow DAG
Tasks == <<"start", "validate_outlets", "fetch_weather_data",
           "store_weather_data", "validate_weather_data", "end">>
TaskIds == { Tasks[i] : i \in DOMAIN Tasks }
Stages == { Tasks[i] : i \in 2..5 }
Position(t) == CHOOSE i \in DOMAIN Tasks : Tasks[i] = t

\* start >> validate_outlets >> fetch_weather_data >> store_weather_data
\*       >> validate_weather_data >> end
Upstream(t) == IF Position(t) = 1 THEN {} ELSE { Tasks[Position(t) - 1] }

\* Mutant: trigger rule all_done, the task runs once its upstream task is
\* finished, however it ended.
Runnable_all_done(t) ==
    /\ state[t] \in {"none", "up_for_retry"}
    /\ \A u \in Upstream(t) : state[u] \in {"success", "failed", "upstream_failed"}

\* The scheduler runs a task instance that has no state yet or is up for
\* retry once every upstream task succeeded (trigger rule all_success).
Runnable(t) ==
    /\ state[t] \in {"none", "up_for_retry"}
    /\ \A u \in Upstream(t) : state[u] = "success"

\* The tasks run one after the other, so one counter follows the task
\* instance in flight: 1 on its first try, one more on each retry.
NextTry(t) == IF state[t] = "none" THEN 1 ELSE try_number + 1

\* Mutant: one retry more than DEFAULT_ARGS['retries'].
StateAfterRaise_one_more(tn) ==
    IF tn <= Retries + 1 THEN "up_for_retry" ELSE "failed"
\* A try that raised: retried while try_number <= retries, else failed.
StateAfterRaise(tn) == IF tn <= Retries THEN "up_for_retry" ELSE "failed"

NoCall == [outcome |-> "none", log |-> <<>>, sleeps |-> 0, error |-> NULL,
           rows |-> 0]
NoReport == Outcome("none", 0, {}, FALSE)
NoXCom == [outlet_count |-> NULL, weather_df |-> NULL, return_value |-> NULL]

ClientIdle ==
    /\ retry_attempts = DagRetryAttempts
    /\ locations = <<>> /\ idx = 0 /\ all_data = <<>> /\ fpc = "idle"
    /\ result = <<>> /\ attempt = 0 /\ last_exception = NULL
    /\ call = NoCall
    /\ inter_sleeps = 0 /\ attempted = 0 /\ rows_fetched = 0

AirflowIdle ==
    /\ state = [t \in TaskIds |-> "none"]
    /\ try_number = 0
    /\ error = [t \in TaskIds |-> "none"]
    /\ xcom = NoXCom
    /\ report = NoReport

\* load_csv_data.py is not running.
LoaderIdle ==
    /\ data_dir = [exists |-> FALSE, files |-> <<>>]
    /\ raw_tables = <<>> /\ opt_truncate = FALSE
    /\ lpc = "idle" /\ file_no = 0 /\ results = <<>>
    /\ success_count = 0 /\ error_count = 0 /\ exit_status = NULL

\* A row an earlier run left in raw.weather.
OldRow == Row(Some(1), Some(1), Some(TempMax), Some(HumMax), Some(WindMax))
PriorTables == { <<>>, <<OldRow>> }

Init ==
    /\ outlet \in OutletTables
    /\ weather \in PriorTables
    /\ server = [bodies |-> Responses, errors |-> {"HTTPError"}]
    /\ db_faults = 0
    /\ AirflowIdle
    /\ ClientIdle
    /\ spc = "idle" /\ store_log = <<>>
    /\ LoaderIdle

\* Mutant: the marker tasks clear raw.weather.
RunEmpty_clearing(t) ==
    /\ t \in {"start", "end"}
    /\ state[t] \in {"none", "up_for_retry"}
    /\ \A u \in Upstream(t) : state[u] = "success"
    /\ state' = [state EXCEPT ![t] = "success"]
    /\ try_number' = IF state[t] = "none" THEN 1 ELSE try_number + 1
    /\ weather' = <<>>
    /\ UNCHANGED loaderVars
    /\ UNCHANGED <<outlet, envVars, error, xcom, report, clientVars, obsVars,
                   storeVars>>
\* EmptyOperator start / end.
RunEmpty(t) ==
    /\ t \in {"start", "end"}
    /\ Runnable(t)
    /\ state' = [state EXCEPT ![t] = "success"]
    /\ try_number' = NextTry(t)
    /\ UNCHANGED loaderVars
    /\ UNCHANGED <<dbVars, envVars, error, xcom, report, clientVars, obsVars,
                   storeVars>>

\* A task none of whose tries will run because an upstream task failed.
UpstreamFailed(t) ==
    /\ state[t] = "none"
    /\ \E u \in Upstream(t) : state[u] \in {"failed", "upstream_failed"}
    /\ state' = [state EXCEPT ![t] = "upstream_failed"]
    /\ UNCHANGED loaderVars
    /\ UNCHANGED <<dbVars, envVars, try_number, error, xcom, report,
                   clientVars, obsVars, storeVars>>

\* The warehouse statements that may raise in this step: none (0) once
\* MaxDbFaults have raised, else none or the q-th of its n statements.
Faults(n) == IF db_faults < MaxDbFaults THEN 0..n ELSE {0}

\* The exception validate_outlets_task ends with ("none": it returns).
\* qfail is the query that raises: 0 none, 1 the row count (get_table_count
\* then returns 0), 2 the SELECT of get_outlets_from_database.
validate_outlets_result(tbl, qfail) ==
    IF get_table_count(Cardinality(tbl), qfail = 1) = 0 THEN "NoOutletsFound"
    ELSE IF qfail = 2 THEN "DatabaseError"
    ELSE IF Len(valid_locations(get_outlets_from_database(tbl))) = 0
      THEN "NoValidCoordinates"
    ELSE "none"

\* Task 1, validate_outlets_task, one try.
ValidateOutlets ==
    LET t == "validate_outlets" IN
    /\ Runnable(t)
    /\ \E qfail \in Faults(2) :
         LET r  == validate_outlets_result(outlet, qfail)
             tn == NextTry(t)
         IN  /\ try_number' = tn
             /\ db_faults' = IF qfail = 1 \/ r = "DatabaseError"
                             THEN db_faults + 1 ELSE db_faults
             /\ error' = [error EXCEPT ![t] = r]
             /\ state' = [state EXCEPT ![t] =
                    IF r = "none" THEN "success" ELSE StateAfterRaise(tn)]
             /\ xcom' = IF r = "none"
                        THEN [xcom EXCEPT !.outlet_count = Some(Len(
                                 valid_locations(get_outlets_from_database(outlet))))]
                        ELSE xcom
    /\ UNCHANGED loaderVars
    /\ UNCHANGED <<dbVars, server, report, clientVars, obsVars, storeVars>>

\* ------------------------------------------------------- WeatherAPIClient
\* What one requests.get ends with: a 2xx response with a JSON body, a
\* non-2xx response (raise_for_status raises HTTPError) or a network error
\* (ConnectionError, Timeout); the last two are requests.RequestException.
RequestExceptions == {"HTTPError", "ConnectionError"}

Answers ==
    [kind : {"ok"}, body : server.bodies]
    \cup [kind : server.errors, body : {NoHourly}]

\* except requests.RequestException as e
is_request_exception(kind) == kind \in RequestExceptions

\* last_exception = e
next_last_exception(prev, e) == Some(e)

\* Mutant: attempt <= retry_attempts, one more pass than configured.
retry_again_inclusive(a, n) == a <= n
\* Mutant: the loop gives up one attempt early.
retry_again_short(a, n) == a < n - 1
\* if attempt < self.retry_attempts: ... time.sleep(self.retry_delay)
retry_again(a, n) == a < n

\* Mutant: except requests.RequestException, which lets a ValueError out.
swallowed_request_only(kind) == kind \in {"HTTPError", "ConnectionError"}
\* except Exception as e: in fetch_weather_for_multiple_locations
swallowed(kind) ==
    kind \in {"InvalidCoordinates", "ParseError", "HTTPError", "ConnectionError"}

\* if idx < total_locations: time.sleep(delay_between_requests)
sleep_after_fetch(i, total) == i < total

\* Mutant: only the first DataFrame is returned.
combined_first(dfs) == IF dfs = <<>> THEN <<>> ELSE Head(dfs)
\* if not all_data: return pd.DataFrame(); else pd.concat(all_data)
combined(dfs) == IF dfs = <<>> THEN <<>> ELSE concat(dfs)

\* The per-location failure handling: logged and skipped when the except
\* clause catches it, else the exception leaves the loop.
AfterLocationFailure(kind) ==
    IF swallowed(kind)
    THEN idx' = idx + 1 /\ fpc' = "loop"
    ELSE idx' = idx /\ fpc' = "raised"

\* Mutant: a location with either coordinate 0 is skipped.
skip_location_either(latitude, longitude) == latitude = 0 \/ longitude = 0
\* if latitude == 0 and longitude == 0: ... continue
skip_location(latitude, longitude) == latitude = 0 /\ longitude = 0

\* One pass of the for loop up to the first HTTP request of the location:
\* a (0, 0) location is skipped, invalid coordinates raise inside
\* fetch_weather_data before any request.
FetchManyNext ==
    /\ fpc = "loop"
    /\ idx <= Len(locations)
    /\ LET location == locations[idx] IN
       IF skip_location(location.latitude, location.longitude)
       THEN /\ idx' = idx + 1
            /\ UNCHANGED <<fpc, attempt, last_exception, call, attempted>>
       ELSE IF ~validate_coordinates(location.latitude, location.longitude)
       THEN /\ AfterLocationFailure("InvalidCoordinates")
            /\ attempted' = attempted + 1
            /\ call' = [NoCall EXCEPT !.outcome = "InvalidCoordinates"]
            /\ UNCHANGED <<attempt, last_exception>>
       ELSE /\ attempted' = attempted + 1
            /\ call' = [NoCall EXCEPT !.outcome = "running"]
            /\ attempt' = 1
            /\ last_exception' = NULL
            /\ fpc' = "request"
            /\ idx' = idx
    /\ UNCHANGED loaderVars
    /\ UNCHANGED <<dbVars, envVars, airflowVars, report, retry_attempts,
                   locations, all_data, result, inter_sleeps, rows_fetched,
                   storeVars>>

\* One pass of the retry loop of _make_request_with_retry with what follows
\* it: on a response, parsing, df.insert, all_data.append and the
\* inter-request sleep; on a RequestException, the retry sleep or, after the
\* last attempt, raise last_exception into the except clause of the caller.
Request ==
    /\ fpc = "request"
    /\ \E a \in Answers :
         LET log == Append(call.log, a.kind) IN
         /\ IF ~is_request_exception(a.kind)
            THEN LET p == parse_response(a.body) IN
                 IF p.ok
                 THEN /\ all_data' = Append(all_data,
                             insert_outlet_id(p.rows, locations[idx].outlet_id))
                      /\ rows_fetched' = rows_fetched + Len(p.rows)
                      /\ inter_sleeps' =
                            IF sleep_after_fetch(idx, Len(locations))
                            THEN inter_sleeps + 1 ELSE inter_sleeps
                      /\ call' = [call EXCEPT !.outcome = "ok", !.log = log,
                                              !.rows = Len(p.rows)]
                      /\ idx' = idx + 1 /\ fpc' = "loop"
                      /\ UNCHANGED <<attempt, last_exception>>
                 ELSE /\ AfterLocationFailure("ParseError")
                      /\ call' = [call EXCEPT !.outcome = "ParseError",
                                              !.log = log]
                      /\ UNCHANGED <<all_data, rows_fetched, inter_sleeps,
                                     attempt, last_exception>>
            ELSE LET e == next_last_exception(last_exception,
                              [kind |-> a.kind, attempt |-> attempt]) IN
                 /\ last_exception' = e
                 /\ IF retry_again(attempt, retry_attempts)
                    THEN /\ call' = [call EXCEPT !.log = log,
                                                 !.sleeps = @ + 1]
                         /\ attempt' = attempt + 1
                         /\ UNCHANGED <<idx, fpc>>
                    ELSE /\ AfterLocationFailure(Val(e).kind)
                         /\ call' = [call EXCEPT !.outcome = "SourceUnavailable",
                                                 !.log = log, !.error = e]
                         /\ UNCHANGED attempt
                 /\ UNCHANGED <<all_data, rows_fetched, inter_sleeps>>
    /\ UNCHANGED loaderVars
    /\ UNCHANGED <<dbVars, envVars, airflowVars, report, retry_attempts,
                   locations, result, attempted, storeVars>>

\* The end of fetch_weather_for_multiple_locations, called on its own.
FetchManyReturn ==
    /\ state["fetch_weather_data"] = "none"
    /\ fpc = "loop"
    /\ idx > Len(locations)
    /\ result' = combined(all_data)
    /\ fpc' = "returned"
    /\ UNCHANGED loaderVars
    /\ UNCHANGED <<dbVars, envVars, airflowVars, report, retry_attempts,
                   locations, idx, all_data, attempt, last_exception, obsVars,
                   storeVars>>

\* The client's frame as a call of fetch_weather_for_multiple_locations
\* (locs, ...) on a client with retry_attempts n enters its loop.
EnterFetchMany(n, locs) ==
    /\ retry_attempts' = n
    /\ locations' = locs /\ idx' = 1 /\ all_data' = <<>> /\ fpc' = "loop"
    /\ result' = <<>> /\ attempt' = 0 /\ last_exception' = NULL
    /\ call' = NoCall
    /\ inter_sleeps' = 0 /\ attempted' = 0 /\ rows_fetched' = 0

\* The client and its DataFrames go away with the task's process.
ClientReset ==
    /\ retry_attempts' = DagRetryAttempts
    /\ locations' = <<>> /\ idx' = 0 /\ all_data' = <<>> /\ fpc' = "idle"
    /\ result' = <<>> /\ attempt' = 0 /\ last_exception' = NULL
    /\ call' = NoCall
    /\ inter_sleeps' = 0 /\ attempted' = 0 /\ rows_fetched' = 0

\* Task 2, fetch_weather_data_task, from the start of a try to the call of
\* fetch_weather_for_multiple_locations.
FetchTaskStart ==
    LET t == "fetch_weather_data" IN
    /\ Runnable(t)
    /\ try_number' = NextTry(t)
    /\ \E qfail \in Faults(1) :
         IF qfail = 1
         THEN /\ state' = [state EXCEPT ![t] = StateAfterRaise(try_number')]
              /\ error' = [error EXCEPT ![t] = "DatabaseError"]
              /\ db_faults' = db_faults + 1
              /\ UNCHANGED <<clientVars, obsVars>>
         ELSE /\ state' = [state EXCEPT ![t] = "running"]
              /\ db_faults' = db_faults
              /\ error' = [error EXCEPT ![t] = "none"]
              /\ EnterFetchMany(DagRetryAttempts,
                     valid_locations(get_outlets_from_database(outlet)))
    /\ UNCHANGED loaderVars
    /\ UNCHANGED <<dbVars, server, xcom, report, storeVars>>

\* Task 2 from the end of the loop of fetch_weather_for_multiple_locations:
\* the combined DataFrame is returned to the task, df.empty raises, else the
\* DataFrame and its length go to XCom.
FetchTaskFinish ==
    LET t  == "fetch_weather_data"
        df == combined(all_data)
    IN
    /\ state[t] = "running"
    /\ fpc = "loop"
    /\ idx > Len(locations)
    /\ IF df = <<>>
       THEN /\ state' = [state EXCEPT ![t] = StateAfterRaise(try_number)]
            /\ error' = [error EXCEPT ![t] = "EmptyFetchResult"]
            /\ xcom' = xcom
       ELSE /\ state' = [state EXCEPT ![t] = "success"]
            /\ error' = [error EXCEPT ![t] = "none"]
            /\ xcom' = [xcom EXCEPT !.weather_df = Some(to_json(df)),
                                    !.return_value = Some(Len(df))]
    /\ ClientReset
    /\ UNCHANGED loaderVars
    /\ UNCHANGED <<dbVars, envVars, try_number, report, storeVars>>

\* ------------------------------------------------ save_weather_to_database
\* One call with if_exists = 'replace', as the entry store_log keeps of it.
\* A TRUNCATE that raises is caught and logged as a warning ("might not exist
\* yet") and the call goes on to append.
StoreEntry(df, truncate, insert, outcome, count) ==
    [rows |-> Len(df), truncate |-> truncate, insert |-> insert,
     result |-> outcome, count |-> count]

EntryAfterTruncate(df, fails, tbl) ==
    StoreEntry(df, IF fails THEN "failed" ELSE "ok", "pending", "running",
               Len(tbl))

EntryAfterInsert(entry, fails, tbl) ==
    [entry EXCEPT !.insert = IF fails THEN "failed" ELSE "ok",
                  !.result = IF fails THEN "raised" ELSE "returned",
                  !.count = Len(tbl)]

\* if df.empty: return, before anything is written.
EntrySkipped(df, tbl) == StoreEntry(df, "skipped", "skipped", "returned", Len(tbl))

\* Task 3, store_weather_data_task, from the start of a try to the end of
\* the TRUNCATE transaction of save_weather_to_database.
StoreTaskStart ==
    LET t == "store_weather_data" IN
    /\ Runnable(t)
    /\ try_number' = NextTry(t)
    /\ IF IsNull(xcom.weather_df)
       THEN /\ state' = [state EXCEPT ![t] = StateAfterRaise(try_number')]
            /\ error' = [error EXCEPT ![t] = "NoWeatherDataReceived"]
            /\ UNCHANGED <<weather, db_faults, storeVars>>
       ELSE LET df == read_json(Val(xcom.weather_df)) IN
            IF df = <<>>
            THEN /\ state' = [state EXCEPT ![t] = "success"]
                 /\ error' = [error EXCEPT ![t] = "none"]
                 /\ store_log' = <<EntrySkipped(df, weather)>>
                 /\ UNCHANGED <<weather, db_faults, spc>>
            ELSE \E qfail \in Faults(1) :
                 /\ weather' = truncate_weather(weather, qfail = 1)
                 /\ db_faults' = db_faults + qfail
                 /\ store_log' = <<EntryAfterTruncate(df, qfail = 1, weather')>>
                 /\ spc' = "insert"
                 /\ state' = [state EXCEPT ![t] = "running"]
                 /\ error' = [error EXCEPT ![t] = "none"]
    /\ UNCHANGED loaderVars
    /\ UNCHANGED <<outlet, server, xcom, report, clientVars, obsVars>>

\* Task 3 from df.to_sql to the end of the try.
StoreTaskInsert ==
    LET t  == "store_weather_data"
        df == read_json(Val(xcom.weather_df))
    IN
    /\ state[t] = "running"
    /\ spc = "insert"
    /\ \E qfail \in Faults(1) :
         /\ weather' = to_sql_append(weather, df, qfail = 1)
         /\ db_faults' = db_faults + qfail
         /\ store_log' = <<EntryAfterInsert(store_log[1], qfail = 1, weather')>>
         /\ state' = [state EXCEPT ![t] =
                IF qfail = 1 THEN StateAfterRaise(try_number) ELSE "success"]
         /\ error' = [error EXCEPT ![t] =
                IF qfail = 1 THEN "PersistenceError" ELSE "none"]
    /\ spc' = "idle"
    /\ UNCHANGED loaderVars
    /\ UNCHANGED <<outlet, server, try_number, xcom, report, clientVars,
                   obsVars>>

\* Task 4, validate_weather_data_task, one try.
ValidateWeather ==
    LET t == "validate_weather_data" IN
    /\ Runnable(t)
    /\ \E qfail \in Faults(5) :
         LET r  == validate_weather_data(weather, outlet, xcom.return_value,
                                         qfail)
             tn == NextTry(t)
         IN  /\ try_number' = tn
             /\ db_faults' = IF qfail = 1 \/ r.kind = "DatabaseError"
                             THEN db_faults + 1 ELSE db_faults
             /\ report' = r
             /\ error' = [error EXCEPT ![t] =
                    IF r.kind = "Passed" THEN "none" ELSE r.kind]
             /\ state' = [state EXCEPT ![t] =
                    IF r.kind = "Passed" THEN "success" ELSE StateAfterRaise(tn)]
    /\ UNCHANGED loaderVars
    /\ UNCHANGED <<dbVars, server, xcom, clientVars, obsVars, storeVars>>

Next ==
    \/ \E t \in {"start", "end"} : RunEmpty(t)
    \/ \E t \in TaskIds : UpstreamFailed(t)
    \/ ValidateOutlets
    \/ FetchTaskStart
    \/ FetchManyNext
    \/ Request
    \/ FetchTaskFinish
    \/ StoreTaskStart
    \/ StoreTaskInsert
    \/ ValidateWeather

Spec == Init /\ [][Next]_vars

\* ------------------------------------------------- the client on its own
ClientCoords ==
    { <<0, 0>>, <<0, 10>>, <<LatMin, LonMax>>, <<LatMax, LonMin>>,
      <<LatMax + 1, 10>>, <<10, LonMin - 1>> }

LocationLists ==
    UNION { { [i \in 1..n |-> [outlet_id |-> i, latitude |-> c[i][1],
                               longitude |-> c[i][2]]]
              : c \in [1..n -> ClientCoords] } : n \in 0..MaxLocations }

InitClient ==
    /\ outlet = {}
    /\ weather = <<>>
    /\ server = [bodies |-> ShapeResponses, errors |-> RequestExceptions]
    /\ db_faults = 0
    /\ AirflowIdle
    /\ spc = "idle" /\ store_log = <<>>
    /\ LoaderIdle
    /\ retry_attempts \in 1..MaxRetryAttempts
    /\ locations \in LocationLists
    /\ idx = 1 /\ all_data = <<>> /\ fpc = "loop"
    /\ result = <<>> /\ attempt = 0 /\ last_exception = NULL
    /\ call = NoCall
    /\ inter_sleeps = 0 /\ attempted = 0 /\ rows_fetched = 0

NextClient == FetchManyNext \/ Request \/ FetchManyReturn

SpecClient == InitClient /\ [][NextClient]_vars

\* -------------------------------------- the replace-mode save, run again
DatasetFor(k, hi) ==
    concat([i \in 1..k |->
              insert_outlet_id(parse_response(Good(MaxHours, hi)).rows, i)])

StoreDatasets == { DatasetFor(k, hi) : k \in 0..MaxOutlets, hi \in BOOLEAN }
OrphanRow ==
    Row(Some(OrphanId), Some(1), Some(TempMin), Some(HumMin), Some(WindMin))
StorePriorTables ==
    PriorTables \cup { <<OldRow, OldRow>>, <<OrphanRow>>, <<OrphanRow, OldRow>> }

InitStore ==
    /\ outlet = {}
    /\ weather \in StorePriorTables
    /\ server = [bodies |-> {}, errors |-> {}]
    /\ db_faults = 0
    /\ state = [t \in TaskIds |-> "none"]
    /\ try_number = 0
    /\ error = [t \in TaskIds |-> "none"]
    /\ report = NoReport
    /\ \E df \in StoreDatasets :
         xcom = [NoXCom EXCEPT !.weather_df = Some(to_json(df)),
                               !.return_value = Some(Len(df))]
    /\ ClientIdle
    /\ spc = "idle" /\ store_log = <<>>
    /\ LoaderIdle

\* save_weather_to_database(df, engine, if_exists='replace') up to the end
\* of its TRUNCATE transaction; called again only after the call before it
\* returned.
SaveBegin ==
    LET df == read_json(Val(xcom.weather_df)) IN
    /\ spc = "idle"
    /\ Len(store_log) < MaxStoreCalls
    /\ store_log # <<>> => store_log[Len(store_log)].result = "returned"
    /\ IF df = <<>>
       THEN /\ store_log' = Append(store_log, EntrySkipped(df, weather))
            /\ UNCHANGED <<weather, db_faults, spc>>
       ELSE \E qfail \in Faults(1) :
            /\ weather' = truncate_weather(weather, qfail = 1)
            /\ db_faults' = db_faults + qfail
            /\ store_log' = Append(store_log,
                                   EntryAfterTruncate(df, qfail = 1, weather'))
            /\ spc' = "insert"
    /\ UNCHANGED loaderVars
    /\ UNCHANGED <<outlet, server, airflowVars, report, clientVars, obsVars>>

\* df.to_sql of the same call.
SaveInsert ==
    LET df == read_json(Val(xcom.weather_df)) IN
    /\ spc = "insert"
    /\ \E qfail \in Faults(1) :
         /\ weather' = to_sql_append(weather, df, qfail = 1)
         /\ db_faults' = db_faults + qfail
         /\ store_log' = [store_log EXCEPT ![Len(store_log)] =
                             EntryAfterInsert(@, qfail = 1, weather')]
    /\ spc' = "idle"
    /\ UNCHANGED loaderVars
    /\ UNCHANGED <<outlet, server, airflowVars, report, clientVars, obsVars>>

NextStore == SaveBegin \/ SaveInsert

SpecStore == InitStore /\ [][NextStore]_vars

\* ================================================================ claims
InRange(x, lo, hi) == lo <= Val(x) /\ Val(x) <= hi

\* Every hard check of the check table, stated on the tables themselves.
HardChecksHold ==
    /\ ~IsNull(xcom.return_value)
    /\ Len(weather) = Val(xcom.return_value)
    /\ \A i \in DOMAIN weather :
         LET r == weather[i] IN
         /\ ~IsNull(r.outlet_id)
         /\ ~IsNull(r.datetime)
         /\ ~IsNull(r.temperature_2m)
         /\ InRange(r.temperature_2m, TempMin, TempMax)
         /\ IsNull(r.relative_humidity_2m)
              \/ InRange(r.relative_humidity_2m, HumMin, HumMax)
         /\ IsNull(r.wind_speed_10m) \/ InRange(r.wind_speed_10m, WindMin, WindMax)
         /\ \E o \in outlet : o.id = Val(r.outlet_id)

\* C1: whenever validate_weather_data has succeeded, and so whenever the DAG
\* run has succeeded, raw.weather holds as many rows as were fetched, no row
\* with a NULL outlet_id, datetime or temperature, no value out of range and
\* no outlet_id missing from raw.outlet.
C1_ValidatedImpliesHardChecks ==
    (state["validate_weather_data"] = "success" \/ state["end"] = "success")
        => HardChecksHold

\* A run that passed validation with two rows stored, one with a NULL
\* optional value.
C1_Witness ==
    /\ state["validate_weather_data"] = "success"
    /\ Len(weather) = 2
    /\ \E i \in DOMAIN weather : IsNull(weather[i].wind_speed_10m)

Started(t) == state[t] \notin {"none", "upstream_failed"}

\* C2: a stage has started only if the stage before it succeeded, the run
\* has succeeded only if all four stages succeeded, and no stage after a
\* failed stage ever starts.
C2_StagesInOrder ==
    /\ \A t \in TaskIds : Started(t) => \A u \in Upstream(t) : state[u] = "success"
    /\ state["end"] = "success" => \A t \in Stages : state[t] = "success"
    /\ \A i \in 2..5, j \in 2..6 :
         (i < j /\ state[Tasks[i]] = "failed") => ~Started(Tasks[j])

\* A run that succeeded.
C2_Witness ==
    /\ state["end"] = "success"
    /\ Len(weather) > 0

\* C3: one fetch_weather_data call makes at most retry_attempts requests,
\* only its last request can be the one answered, and a call that gives up
\* has made exactly retry_attempts requests, all failed, and raises the
\* exception of the last of them.
C3_RetryBound ==
    LET n == Len(call.log) IN
    /\ n <= retry_attempts
    /\ \A i \in 1..(n - 1) : call.log[i] \in RequestExceptions
    /\ call.outcome \in {"ok", "ParseError"} => n >= 1 /\ call.log[n] = "ok"
    /\ call.outcome = "running" => \A i \in 1..n : call.log[i] \in RequestExceptions
    /\ call.outcome = "SourceUnavailable" =>
         /\ n = retry_attempts
         /\ \A i \in 1..n : call.log[i] \in RequestExceptions
         /\ call.error = Some([kind |-> call.log[n], attempt |-> n])

\* Three requests, all failed, the last with another error than the first.
C3_Witness ==
    /\ call.outcome = "SourceUnavailable"
    /\ retry_attempts = 3
    /\ Len(call.log) = 3
    /\ call.log[1] # call.log[3]

\* C4: the retry delay is slept once after every failed attempt but the
\* last: a call answered on its k-th request has slept k - 1 times, a call
\* that gave up retry_attempts - 1 times, and a call about to make its next
\* request once per request made.
C4_RetrySleeps ==
    LET n == Len(call.log) IN
    /\ call.outcome \in {"ok", "ParseError"} => call.sleeps = n - 1
    /\ call.outcome = "SourceUnavailable" => call.sleeps = retry_attempts - 1
    /\ call.outcome = "running" => call.sleeps = n /\ attempt = n + 1

\* Two HTTP errors, then a response: answered on the third attempt after two
\* sleeps.
C4_Witness ==
    /\ retry_attempts = 3
    /\ call.outcome = "ok"
    /\ call.log = <<"HTTPError", "HTTPError", "ok">>
    /\ call.sleeps = 2

\* C5: fetch_weather_for_multiple_locations never lets a per-location
\* failure out; it returns as many rows as the successful fetch_weather_data
\* calls returned together, and an empty DataFrame when none did.
C5_FetchManySwallows ==
    /\ fpc # "raised"
    /\ fpc = "returned" =>
         /\ Len(result) = rows_fetched
         /\ rows_fetched = 0 => result = <<>>

\* Two locations, the first with invalid coordinates, the second fetched.
C5_Witness ==
    /\ fpc = "returned"
    /\ Len(locations) = 2
    /\ ~validate_coordinates(locations[1].latitude, locations[1].longitude)
    /\ call.outcome = "ok"
    /\ Len(result) = MaxHours

\* C6: a call with m attempted fetches has slept the inter-request delay
\* max(m - 1, 0) times when it returns.
C6_InterRequestSleeps ==
    fpc = "returned" =>
        inter_sleeps = (IF attempted = 0 THEN 0 ELSE attempted - 1)

\* C7: once the store stage has succeeded, raw.weather holds exactly the
\* rows of the DataFrame it was given.
C7_StoreReplaces ==
    state["store_weather_data"] = "success" =>
        weather = read_json(Val(xcom.weather_df))

\* C8: the store stage has not succeeded on a try one of whose writes, the
\* TRUNCATE or the insert, failed.
C8_WriteFailureFailsStore ==
    state["store_weather_data"] = "success" =>
        /\ store_log[1].truncate # "failed"
        /\ store_log[1].insert # "failed"

\* C9: a second replace-mode store of the same DataFrame leaves as many rows
\* as the first.
C9_StoreIdempotent ==
    \A k \in 2..Len(store_log) :
        store_log[k].result = "returned" => store_log[k].count = store_log[1].count

HardKinds ==
    {"RecordCountMismatch", "NullViolation(outlet_id)",
     "NullViolation(timestamp)", "NullViolation(temperature)",
     "RangeViolation(temperature)", "RangeViolation(humidity)",
     "RangeViolation(wind_speed)", "OrphanReference"}

\* C10: a try of validate_weather_data that found a hard check violated has
\* evaluated all nine checks.
C10_AllChecksEvaluated ==
    report.kind \in HardKinds => report.evaluated = AllChecks

\* The outlets with non-null coordinates other than (0, 0).
UsableOutlets ==
    { o \in outlet : /\ o.latitude # NULL /\ o.longitude # NULL
                     /\ ~(o.latitude = <<0>> /\ o.longitude = <<0>>) }

\* C11: a try of validate_outlets has failed with NoOutletsFound exactly when
\* raw.outlet has no row, has failed with NoValidCoordinates only when rows
\* exist but none is usable, has succeeded only when a usable outlet exists,
\* and after either failure no request was made and raw.weather is as it was.
C11_OutletPreconditions ==
    LET t == "validate_outlets" IN
    state[t] # "none" =>
        /\ error[t] = "NoOutletsFound" <=> outlet = {}
        /\ error[t] = "NoValidCoordinates" => outlet # {} /\ UsableOutlets = {}
        /\ state[t] = "success" => UsableOutlets # {}
        /\ state[t] = "failed" => call = NoCall /\ weather \in PriorTables

\* C12: the outlet_count validate_outlets pushes is the number of outlets
\* with non-null coordinates other than (0, 0), and a try of
\* fetch_weather_data in the same run works on exactly these outlets and has
\* attempted a fetch for each of them when its loop ends.
C12_OutletCountFetched ==
    /\ state["validate_outlets"] = "success" => xcom.outlet_count # NULL
    /\ xcom.outlet_count # NULL => Val(xcom.outlet_count) = Cardinality(UsableOutlets)
    /\ state["fetch_weather_data"] = "running" =>
         /\ Len(locations) = Val(xcom.outlet_count)
         /\ { locations[i].outlet_id : i \in DOMAIN locations }
              = { o.id : o \in UsableOutlets }
         /\ attempted <= Len(locations)
         /\ (fpc = "loop" /\ idx > Len(locations)) =>
                attempted = Val(xcom.outlet_count)

\* Two outlets, one of them at (0, 0): outlet_count 1, and the loop of
\* fetch_weather_data has ended after one attempted fetch.
C12_Witness ==
    /\ Cardinality(outlet) = 2
    /\ \E o \in outlet : o.latitude = <<0>> /\ o.longitude = <<0>>
    /\ xcom.outlet_count = <<1>>
    /\ state["fetch_weather_data"] = "running"
    /\ fpc = "loop" /\ idx > Len(locations)
    /\ attempted = 1

\* C13: the try of fetch_weather_data that ends raises EmptyFetchResult
\* exactly when the fetches of its locations returned no row at all; when
\* they returned a row the task succeeds, whatever happened to the other
\* locations, and both its return value and the DataFrame it pushes have as
\* many rows as the fetches returned.
C13_EmptyFetchResult ==
    [][ LET t == "fetch_weather_data" IN
        (state[t] = "running" /\ state'[t] # "running") =>
            /\ error'[t] = "EmptyFetchResult" <=> rows_fetched = 0
            /\ rows_fetched > 0 =>
                 /\ state'[t] = "success"
                 /\ xcom'.return_value = <<rows_fetched>>
                 /\ Len(read_json(Val(xcom'.weather_df))) = rows_fetched
      ]_vars

\* fetch_weather_data succeeded with the rows of one of two valid outlets.
C13_Witness ==
    /\ state["fetch_weather_data"] = "success"
    /\ xcom.outlet_count = <<2>>
    /\ xcom.return_value = <<MaxHours>>
    /\ Len(read_json(Val(xcom.weather_df))) = MaxHours

\* ------------------------------------ WeatherAPIClient against one response
\* fetch_weather_for_multiple_locations against an API that answers every
\* request it does not fail with the same body.
ParseBodies ==
    ShapeResponses
    \cup { WithoutKey(Good(MaxHours, FALSE), WEATHER_METRICS[i])
             : i \in DOMAIN WEATHER_METRICS }

InitParse ==
    /\ outlet = {}
    /\ weather = <<>>
    /\ server \in { [bodies |-> {b}, errors |-> {"HTTPError"}] : b \in ParseBodies }
    /\ db_faults = 0
    /\ AirflowIdle
    /\ spc = "idle" /\ store_log = <<>>
    /\ LoaderIdle
    /\ retry_attempts \in 1..MaxRetryAttempts
    /\ locations \in { l \in LocationLists : Len(l) = 1 }
    /\ idx = 1 /\ all_data = <<>> /\ fpc = "loop"
    /\ result = <<>> /\ attempt = 0 /\ last_exception = NULL
    /\ call = NoCall
    /\ inter_sleeps = 0 /\ attempted = 0 /\ rows_fetched = 0

SpecParse == InitParse /\ [][NextClient]_vars

\* ----------------------------------- validate_weather_data_task on its own
\* The task run by the scheduler on any contents of raw.weather and any
\* XCom return value of fetch_weather_data (absent, 0 or a count).
GoodRow(hi) ==
    Row(Some(1), Some(1), Some(IF hi THEN TempMax ELSE TempMin),
        Some(IF hi THEN HumMax ELSE HumMin), Some(IF hi THEN WindMax ELSE WindMin))

RowDefects ==
    { <<"outlet_id", NULL>>, <<"outlet_id", Some(OrphanId)>>, <<"datetime", NULL>> }
    \cup { c \in DefectCells : c[1] # "time" }

ValidateRows ==
    { GoodRow(hi) : hi \in BOOLEAN }
    \cup { [GoodRow(FALSE) EXCEPT ![c[1]] = c[2]] : c \in RowDefects }

ValidateTables == UNION { [1..n -> ValidateRows] : n \in 0..MaxRows }

FetchedCounts == {NULL} \cup { Some(n) : n \in 0..(MaxRows + 1) }

InitValidate ==
    /\ outlet = { [id |-> 1, latitude |-> Some(0), longitude |-> Some(10)] }
    /\ weather \in ValidateTables
    /\ server = [bodies |-> {}, errors |-> {}]
    /\ db_faults = 0
    /\ state = [t \in TaskIds |->
                  IF Position(t) < Position("validate_weather_data")
                  THEN "success" ELSE "none"]
    /\ try_number = 0
    /\ error = [t \in TaskIds |-> "none"]
    /\ report = NoReport
    /\ \E fc \in FetchedCounts :
         xcom = [NoXCom EXCEPT !.outlet_count = Some(1), !.return_value = fc]
    /\ ClientIdle
    /\ spc = "idle" /\ store_log = <<>>
    /\ LoaderIdle

NextValidate ==
    \/ ValidateWeather
    \/ \E t \in {"end"} : RunEmpty(t) \/ UpstreamFailed(t)

SpecValidate == InitValidate /\ [][NextValidate]_vars

\* ------------------------------------------------------- claims, continued
IsOrigin(loc) == loc.latitude = 0 /\ loc.longitude = 0
CoordsInRange(loc) ==
    /\ -90 <= loc.latitude /\ loc.latitude <= 90
    /\ -180 <= loc.longitude /\ loc.longitude <= 180
\* The place in the input list of the location with outlet_id id.
PlaceOf(id) == CHOOSE j \in DOMAIN locations : locations[j].outlet_id = Val(id)

\* C14: fetch_weather_for_multiple_locations passes over a location at
\* (0, 0) without a fetch_weather_data call, a request, a row or an error,
\* and calls fetch_weather_data for a location with one coordinate 0, whose
\* request goes out when its coordinates are in range.
C14_OriginSkipped ==
    /\ [](fpc # "raised")
    /\ [](fpc = "request" => ~IsOrigin(locations[idx]))
    /\ [](\A k \in DOMAIN all_data : \A i \in DOMAIN all_data[k] :
             ~IsOrigin(locations[PlaceOf(all_data[k][i].outlet_id)]))
    /\ [][ (fpc = "loop" /\ idx <= Len(locations)) =>
             IF IsOrigin(locations[idx])
             THEN /\ idx' = idx + 1 /\ fpc' = "loop"
                  /\ UNCHANGED <<call, attempt, all_data, attempted,
                                 rows_fetched, inter_sleeps>>
             ELSE /\ attempted' = attempted + 1
                  /\ CoordsInRange(locations[idx]) =>
                        fpc' = "request" /\ call'.outcome = "running"
         ]_vars

\* A location at (0, 0) followed by one at (0, 10): one fetch attempted, and
\* the rows returned are those of the second location.
C14_Witness ==
    /\ fpc = "returned"
    /\ Len(locations) = 2
    /\ IsOrigin(locations[1])
    /\ locations[2].latitude = 0 /\ locations[2].longitude = 10
    /\ attempted = 1
    /\ Len(result) = MaxHours
    /\ \A i \in DOMAIN result : result[i].outlet_id = <<2>>

\* C15: fetch_weather_data called with a latitude outside [-90, 90] or a
\* longitude outside [-180, 180] raises InvalidCoordinates with no request
\* made and no retry sleep; with coordinates in these ranges, bounds
\* included, its request goes out.
C15_InvalidCoordinates ==
    /\ [](call.outcome = "InvalidCoordinates" =>
             call.log = <<>> /\ call.sleeps = 0)
    /\ [](fpc = "request" => CoordsInRange(locations[idx]))
    /\ [][ (fpc = "loop" /\ idx <= Len(locations) /\ ~IsOrigin(locations[idx])) =>
             IF CoordsInRange(locations[idx])
             THEN fpc' = "request" /\ call'.outcome = "running"
             ELSE /\ call'.outcome = "InvalidCoordinates"
                  /\ fpc' = "loop" /\ idx' = idx + 1
                  /\ UNCHANGED <<all_data, rows_fetched, inter_sleeps>>
         ]_vars

\* The location (90, -180) was fetched, then longitude -181 was refused.
C15_Witness ==
    /\ Len(locations) = 2 /\ idx = 3
    /\ locations[1].latitude = 90 /\ locations[1].longitude = -180
    /\ locations[2].longitude = -181
    /\ Len(all_data) = 1 /\ Len(all_data[1]) = MaxHours
    /\ call.outcome = "InvalidCoordinates"

\* C17: the loop index only moves forward, one location at a time; each
\* DataFrame appended carries the outlet_id of one location already passed,
\* later DataFrames belong to later locations, and the DataFrame returned
\* holds, in input order of the locations, exactly the rows of each.
C17_InputOrder ==
    /\ [][idx' \in {idx, idx + 1}]_vars
    /\ [](\A k \in DOMAIN all_data : \A i \in DOMAIN all_data[k] :
             /\ all_data[k][i].outlet_id # NULL
             /\ all_data[k][i].outlet_id = all_data[k][1].outlet_id
             /\ \E j \in 1..(idx - 1) :
                    locations[j].outlet_id = Val(all_data[k][i].outlet_id))
    /\ [](\A k1, k2 \in DOMAIN all_data :
             (k1 < k2 /\ all_data[k1] # <<>> /\ all_data[k2] # <<>>) =>
                 PlaceOf(all_data[k1][1].outlet_id)
                     < PlaceOf(all_data[k2][1].outlet_id))
    /\ [](fpc = "returned" =>
             /\ Len(result) = rows_fetched
             /\ \A i, j \in DOMAIN result :
                    i < j => PlaceOf(result[i].outlet_id)
                                 <= PlaceOf(result[j].outlet_id)
             /\ \A k \in DOMAIN all_data :
                    all_data[k] # <<>> =>
                        SelectSeq(result,
                                  LAMBDA r : r.outlet_id = all_data[k][1].outlet_id)
                            = all_data[k])

\* Both of two locations fetched: the rows of the first come first.
C17_Witness ==
    /\ fpc = "returned"
    /\ Len(all_data) = 2
    /\ Len(result) = 2 * MaxHours
    /\ result[1].outlet_id = <<1>>
    /\ result[Len(result)].outlet_id = <<2>>

\* The body the API of SpecParse answers with.
TheBody == CHOOSE b \in server.bodies : TRUE

\* C16: when a response that has the hourly time array but lacks a requested
\* metric has arrived, fetch_weather_data has returned one row per time
\* entry, with NULL for that metric in every row.
C16_MissingMetricNull ==
    \A m \in { WEATHER_METRICS[i] : i \in DOMAIN WEATHER_METRICS } :
        ( /\ call.outcome \in {"ok", "ParseError"}
          /\ "time" \in TheBody.keys
          /\ m \notin TheBody.keys ) =>
            /\ call.outcome = "ok"
            /\ call.rows = Len(TheBody.col["time"])
            /\ Len(all_data) = 1
            /\ \A i \in DOMAIN all_data[1] : all_data[1][i][m] = NULL

Tried4 == report.kind # "none"
Diff(a, b) == IF a < b THEN b - a ELSE a - b

\* C18: a try of validate_weather_data on a table whose row count differs
\* from a known fetched count fails with RecordCountMismatch and reports the
\* absolute difference.
C18_CountMismatchAlways ==
    (Tried4 /\ xcom.return_value # NULL /\ Len(weather) # Val(xcom.return_value))
        => /\ report.kind = "RecordCountMismatch"
           /\ report.count = Diff(Len(weather), Val(xcom.return_value))

\* C18, amended: the try fails with the no-weather-data diagnostic only when
\* the table is empty or the count query raised; otherwise, when the fetched
\* count is known and nonzero and differs from the row count, it fails with
\* RecordCountMismatch reporting the absolute difference, whatever the rows
\* hold.
C18_CountMismatchWhenCounted ==
    Tried4 =>
        /\ report.kind = "NoWeatherData" => (Len(weather) = 0 \/ db_faults > 0)
        /\ ( /\ report.kind # "NoWeatherData"
             /\ xcom.return_value \notin {NULL, <<0>>}
             /\ Len(weather) # Val(xcom.return_value) )
             => /\ report.kind = "RecordCountMismatch"
                /\ report.count = Diff(Len(weather), Val(xcom.return_value))

\* Two rows stored, one fetched, and a row that the NULL check would refuse.
C18_Witness ==
    /\ report.kind = "RecordCountMismatch"
    /\ report.count = 1
    /\ Len(weather) = 2
    /\ xcom.return_value = <<1>>
    /\ \E i \in DOMAIN weather : weather[i].temperature_2m = NULL

\* No query of the try raised, and the checks before the range checks pass.
BeforeRangeChecksPass ==
    /\ Tried4
    /\ report.kind \notin {"NoWeatherData", "DatabaseError"}
    /\ xcom.return_value \in {NULL, <<0>>, <<Len(weather)>>}
    /\ \A i \in DOMAIN weather :
         /\ weather[i].outlet_id # NULL
         /\ weather[i].datetime # NULL
         /\ weather[i].temperature_2m # NULL

\* The rows whose value in column c is present and below lo or above hi.
OutOfRange(c, lo, hi) ==
    { i \in DOMAIN weather :
        weather[i][c] # NULL /\ (weather[i][c][1] < lo \/ weather[i][c][1] > hi) }

RangeKinds ==
    {"RangeViolation(temperature)", "RangeViolation(humidity)",
     "RangeViolation(wind_speed)"}

\* C19: when the earlier checks pass, the try fails with RangeViolation of
\* the first column, of temperature, humidity and wind speed, that has a
\* value below -50 / 0 / 0 or above 60 / 100 / 200, reporting the number of
\* such rows, and with no RangeViolation when no column has one.
C19_RangeBoundsInclusive ==
    BeforeRangeChecksPass =>
        LET nt == Cardinality(OutOfRange("temperature_2m", -50, 60))
            nh == Cardinality(OutOfRange("relative_humidity_2m", 0, 100))
            nw == Cardinality(OutOfRange("wind_speed_10m", 0, 200))
        IN  IF nt > 0
              THEN report.kind = "RangeViolation(temperature)" /\ report.count = nt
            ELSE IF nh > 0
              THEN report.kind = "RangeViolation(humidity)" /\ report.count = nh
            ELSE IF nw > 0
              THEN report.kind = "RangeViolation(wind_speed)" /\ report.count = nw
            ELSE report.kind \notin RangeKinds

\* One row at 60 degrees and one at 61: RangeViolation(temperature), count 1.
C19_Witness ==
    /\ report.kind = "RangeViolation(temperature)"
    /\ report.count = 1
    /\ Len(weather) = 2
    /\ \E i, j \in DOMAIN weather :
         weather[i].temperature_2m = <<60>> /\ weather[j].temperature_2m = <<61>>

\* C20: when the earlier checks pass, the try fails with OrphanReference
\* exactly when a row of raw.weather carries an outlet_id no row of
\* raw.outlet has, and reports the number of these rows.
C20_OrphanReference ==
    LET orphans == { i \in DOMAIN weather :
                       \A o \in outlet : weather[i].outlet_id # <<o.id>> }
    IN  ( /\ BeforeRangeChecksPass
          /\ OutOfRange("temperature_2m", -50, 60) = {}
          /\ OutOfRange("relative_humidity_2m", 0, 100) = {}
          /\ OutOfRange("wind_speed_10m", 0, 200) = {} )
        => /\ report.kind = "OrphanReference" <=> orphans # {}
           /\ orphans # {} => report.count = Cardinality(orphans)
           /\ orphans = {} => report.kind = "Passed"

\* Two rows of the same missing outlet: OrphanReference, count 2.
C20_Witness ==
    /\ report.kind = "OrphanReference"
    /\ report.count = 2
    /\ Len(weather) = 2
    /\ weather[1].outlet_id = weather[2].outlet_id

\* The rows of raw.weather whose outlet_id no row of raw.outlet has.
Orphans ==
    { i \in DOMAIN weather : \A o \in outlet : weather[i].outlet_id # <<o.id>> }

\* No query of the try raised and no hard check is violated.
NoHardViolation ==
    /\ BeforeRangeChecksPass
    /\ OutOfRange("temperature_2m", -50, 60) = {}
    /\ OutOfRange("relative_humidity_2m", 0, 100) = {}
    /\ OutOfRange("wind_speed_10m", 0, 200) = {}
    /\ Orphans = {}

OptionalNulls ==
    { i \in DOMAIN weather :
        weather[i].relative_humidity_2m = NULL \/ weather[i].wind_speed_10m = NULL }

\* C21: a try of validate_weather_data on a table with rows whose humidity
\* or wind speed is NULL and with no hard check violated passes, with a
\* warning only: the task succeeds and the run is not failed by it.
C21_OptionalNullsSoft ==
    (NoHardViolation /\ OptionalNulls # {}) =>
        /\ report.kind = "Passed"
        /\ report.warned
        /\ state["validate_weather_data"] = "success"
        /\ state["end"] \in {"none", "success"}

\* A run that succeeded on one row without humidity and one without wind speed.
C21_Witness ==
    /\ state["end"] = "success"
    /\ Len(weather) = 2
    /\ weather[1].relative_humidity_2m = NULL
    /\ weather[2].wind_speed_10m = NULL

\* C22: no task of the DAG is tried a second time: none is ever up for
\* retry and the try number never exceeds 1.
C22_NoPipelineRetry ==
    /\ try_number <= 1
    /\ \A t \in TaskIds : state[t] # "up_for_retry"

Finished == {"success", "failed", "upstream_failed"}

\* C22, amended: a stage whose try raised is up for retry and is tried again
\* until a try succeeds or its third try (retries = 2) has raised; only then
\* is it failed. A stage is never tried more than three times, and a stage
\* that succeeded or failed is not run again.
C22_RetriesBounded ==
    /\ [](try_number \in 0..3)
    /\ [](\A t \in Stages :
            /\ state[t] = "up_for_retry" => (try_number \in 1..2 /\ error[t] # "none")
            /\ state[t] = "failed" => (try_number = 3 /\ error[t] # "none"))
    /\ [][ /\ \A t \in TaskIds : state[t] \in Finished => state'[t] = state[t]
           /\ try_number' \in {try_number, try_number + 1, 1}
           /\ \A t \in Stages :
                (state[t] = "up_for_retry" /\ state'[t] # state[t])
                    => try_number' = try_number + 1
         ]_vars

\* fetch_weather_data raised EmptyFetchResult twice and succeeded on its
\* third try.
C22_Witness ==
    /\ state["fetch_weather_data"] = "success"
    /\ try_number = 3
    /\ state["store_weather_data"] = "none"

\* ------------------------------- a DAG run on an API that repeats an hour
\* A well-formed body whose hourly arrays carry the same hour twice.
RepeatedHour ==
    [keys |-> HourlyKeys,
     col  |-> [k \in HourlyKeys |->
                 <<GoodValue(k, 1, FALSE), GoodValue(k, 1, FALSE)>>]]

InitRepeat ==
    /\ outlet \in { tbl \in OutletTables : Cardinality(tbl) <= 1 }
    /\ weather \in PriorTables
    /\ server = [bodies |-> {Good(MaxHours, FALSE), RepeatedHour},
                 errors |-> {"HTTPError"}]
    /\ db_faults = 0
    /\ AirflowIdle
    /\ ClientIdle
    /\ spc = "idle" /\ store_log = <<>>
    /\ LoaderIdle

SpecRepeat == InitRepeat /\ [][Next]_vars

\* C23: when the DAG run has succeeded, no two rows of raw.weather have the
\* same outlet_id and the same datetime.
C23_OneRowPerKey ==
    state["end"] = "success" =>
        \A i, j \in DOMAIN weather :
            (weather[i].outlet_id = weather[j].outlet_id
             /\ weather[i].datetime = weather[j].datetime) => i = j

\* C24: no step of a DAG run changes raw.outlet; a step that changes
\* raw.weather is a step of a try of store_weather_data and of no other task;
\* every step of validate_outlets, fetch_weather_data (its client included)
\* and validate_weather_data, raising or not, leaves both tables as they are.
C24_FrameOfStages ==
    [][ /\ outlet' = outlet
        /\ weather' # weather =>
             /\ state["store_weather_data"] \in {"none", "up_for_retry", "running"}
             /\ state'["store_weather_data"] \in {"running", "success",
                                                  "up_for_retry", "failed"}
             /\ \A t \in TaskIds \ {"store_weather_data"} :
                    state'[t] = state[t] /\ error'[t] = error[t]
             /\ report' = report
             /\ UNCHANGED <<clientVars, xcom>>
        /\ ( \/ \E t \in TaskIds \ {"store_weather_data"} : state'[t] # state[t]
             \/ fpc' # fpc \/ idx' # idx \/ attempt' # attempt
             \/ report' # report )
             => weather' = weather
      ]_vars

\* The store stage wrote the fetched rows, then validate_weather_data failed.
C24_Witness ==
    /\ state["validate_weather_data"] = "failed"
    /\ store_log # <<>> /\ store_log[1].insert = "ok"
    /\ weather # <<>>
    /\ state["validate_outlets"] = "success"
    /\ state["fetch_weather_data"] = "success"

\* The kind of the first violated hard check of the check table, in the
\* order of the table, read from the tables and the fetched count.
FirstViolated ==
    LET fc == xcom.return_value
        HasNull(c) == \E i \in DOMAIN weather : weather[i][c] = NULL
    IN  IF fc \notin {NULL, <<0>>} /\ Len(weather) # Val(fc)
          THEN "RecordCountMismatch"
        ELSE IF HasNull("outlet_id") THEN "NullViolation(outlet_id)"
        ELSE IF HasNull("datetime") THEN "NullViolation(timestamp)"
        ELSE IF HasNull("temperature_2m") THEN "NullViolation(temperature)"
        ELSE IF OutOfRange("temperature_2m", -50, 60) # {}
          THEN "RangeViolation(temperature)"
        ELSE IF OutOfRange("relative_humidity_2m", 0, 100) # {}
          THEN "RangeViolation(humidity)"
        ELSE IF OutOfRange("wind_speed_10m", 0, 200) # {}
          THEN "RangeViolation(wind_speed)"
        ELSE IF Orphans # {} THEN "OrphanReference"
        ELSE "Passed"

\* C25: a try of validate_weather_data none of whose queries raised, on a
\* table that is not empty, ends with the kind of the first violated check in
\* the order record count, NULL outlet_id, NULL timestamp, NULL temperature,
\* temperature range, humidity range, wind-speed range, orphan reference,
\* whatever the later checks would find, and the task does not succeed.
C25_FirstViolatedCheck ==
    (Tried4 /\ report.kind \notin {"NoWeatherData", "DatabaseError"}) =>
        /\ report.kind = FirstViolated
        /\ FirstViolated # "Passed" => state["validate_weather_data"] # "success"

\* A row without timestamp and a row at 61 degrees: NullViolation(timestamp).
C25_Witness ==
    /\ report.kind = "NullViolation(timestamp)"
    /\ Len(weather) = 2
    /\ weather[1].temperature_2m = <<61>>
    /\ weather[2].datetime = NULL

LastSave == store_log[Len(store_log)]

\* C27: in save_weather_to_database(df, engine, if_exists='replace') the
\* TRUNCATE is committed before df.to_sql begins: between the two, after a
\* TRUNCATE that went through, raw.weather is empty with a non-empty df still
\* to be written; when df.to_sql then raises, the call raises (which fails
\* the try of store_weather_data) and raw.weather stays empty, the rows it
\* held before the call are gone.
C27_TruncateCommittedFirst ==
    /\ [](spc = "insert" =>
            /\ LastSave.rows > 0
            /\ LastSave.truncate = "ok" => (weather = <<>> /\ LastSave.count = 0))
    /\ [][ (spc = "insert" /\ LastSave.truncate = "ok" /\ db_faults' > db_faults)
             => /\ weather' = <<>>
                /\ LastSave'.insert = "failed"
                /\ LastSave'.result = "raised"
         ]_vars
    /\ [](\A k \in DOMAIN store_log :
            store_log[k].insert = "failed" =>
                /\ k = Len(store_log)
                /\ store_log[k].result = "raised"
                /\ store_log[k].truncate = "ok" => weather = <<>>)

\* A first call stored rows; in the second call the TRUNCATE went through
\* and df.to_sql raised: the table is empty.
C27_Witness ==
    /\ Len(store_log) = 2
    /\ store_log[1].result = "returned" /\ store_log[1].count > 0
    /\ store_log[2].rows > 0
    /\ store_log[2].truncate = "ok"
    /\ store_log[2].insert = "failed"
    /\ weather = <<>>

\* C27 in a DAG run: the try of store_weather_data in which df.to_sql raises
\* ends up for retry or failed with PersistenceError, and with the TRUNCATE
\* gone through raw.weather is empty then.
C27_InsertFailureFailsStage ==
    [][ (spc = "insert" /\ state["store_weather_data"] = "running"
         /\ db_faults' > db_faults)
          => /\ state'["store_weather_data"] \in {"up_for_retry", "failed"}
             /\ error'["store_weather_data"] = "PersistenceError"
             /\ LastSave.truncate = "ok" => weather' = <<>>
      ]_vars

Raised == {"up_for_retry", "failed"}

\* C28: a try of validate_outlets whose count query raises ends with
\* NoOutletsFound, and a try of validate_weather_data whose count query raises
\* ends with NoWeatherData, whatever the tables hold; the try does not
\* succeed. These diagnostics on a non-empty table come from a query that
\* raised and from nothing else.
C28_CountErrorAsEmpty ==
    /\ [][ ( /\ state'["validate_outlets"] # state["validate_outlets"]
             /\ db_faults' > db_faults
             /\ error'["validate_outlets"] # "DatabaseError" )
             => /\ error'["validate_outlets"] = "NoOutletsFound"
                /\ state'["validate_outlets"] \in Raised
         ]_vars
    /\ [][ ( /\ state'["validate_weather_data"] # state["validate_weather_data"]
             /\ db_faults' > db_faults
             /\ report'.kind # "DatabaseError" )
             => /\ report'.kind = "NoWeatherData"
                /\ error'["validate_weather_data"] = "NoWeatherData"
                /\ state'["validate_weather_data"] \in Raised
         ]_vars
    /\ []( (error["validate_outlets"] = "NoOutletsFound" /\ outlet # {})
             => db_faults > 0 /\ state["validate_outlets"] \in Raised )
    /\ []( (report.kind = "NoWeatherData" /\ weather # <<>>)
             => db_faults > 0 /\ state["validate_weather_data"] \in Raised )

\* The store wrote the fetched rows and the try of validate_weather_data
\* ended with NoWeatherData.
C28_Witness ==
    /\ report.kind = "NoWeatherData"
    /\ store_log # <<>> /\ store_log[1].insert = "ok"
    /\ Len(weather) = xcom.return_value[1]
    /\ state["validate_weather_data"] = "up_for_retry"

\* ------------------------------------------------ runs that keep running
\* The scheduler goes on running the tasks that can run and the process of
\* a task goes on executing: a step that can be taken is taken eventually.
\* The API answers with a body of MaxHours entries, an empty body or an
\* HTTP error: what decides how a run goes on, not what its rows hold.
InitFair ==
    /\ outlet \in OutletTables
    /\ weather \in PriorTables
    /\ server = [bodies |-> {Good(MaxHours, FALSE), Good(0, FALSE)},
                 errors |-> {"HTTPError"}]
    /\ db_faults = 0
    /\ AirflowIdle
    /\ ClientIdle
    /\ spc = "idle" /\ store_log = <<>>
    /\ LoaderIdle

SpecFair == InitFair /\ [][Next]_vars /\ WF_vars(Next)

\* HTTP requests that fetch_weather_for_multiple_locations can still make:
\* retry_attempts for each location not yet taken up, and what is left of
\* them for the fetch_weather_data call under way.
RequestBudget ==
    (Len(locations) - attempted) * retry_attempts
    + (IF fpc = "request" THEN retry_attempts - Len(call.log) ELSE 0)

\* The same for retry sleeps, retry_attempts - 1 for each call.
SleepBudget ==
    (Len(locations) - attempted) * (retry_attempts - 1)
    + (IF fpc = "request" THEN (retry_attempts - 1) - call.sleeps ELSE 0)

InFetchMany == fpc \in {"loop", "request"}

\* A call of fetch_weather_for_multiple_locations on L locations with
\* retry_attempts = N: the budgets stay within 0..L * N and 0..L * (N - 1),
\* no step adds to one, every request and every retry sleep takes from its
\* budget, and requests are made inside the call only.
FetchManyBudgets ==
    /\ [](InFetchMany =>
             /\ RequestBudget \in 0..(Len(locations) * retry_attempts)
             /\ SleepBudget \in 0..(Len(locations) * (retry_attempts - 1))
             /\ inter_sleeps \in 0..Len(locations))
    /\ [][ (InFetchMany /\ InFetchMany') =>
             /\ RequestBudget' <= RequestBudget
             /\ SleepBudget' <= SleepBudget
             /\ Len(call'.log) > Len(call.log) => RequestBudget' < RequestBudget
             /\ call'.sleeps > call.sleeps => SleepBudget' < SleepBudget
         ]_vars
    /\ [][ (call' # call /\ call'.outcome # "none") =>
             InFetchMany /\ (InFetchMany' \/ fpc' \in {"raised", "idle"}) ]_vars

\* C29: every DAG run ends with each task in state success, failed or
\* upstream_failed, the task end succeeded (the run succeeded) or some stage
\* failed (the run failed). A call of fetch_weather_for_multiple_locations
\* on L locations with retry_attempts = N starts with a budget of L * N
\* requests and L * (N - 1) retry sleeps; every request and every retry sleep
\* takes at least one from its budget, no step adds to a budget and no budget
\* goes below 0; the inter-request sleeps number at most L.
C29_RunTerminates ==
    /\ <>[](\A t \in TaskIds : state[t] \in Finished)
    /\ []((\A t \in TaskIds : state[t] \in Finished) =>
             \/ \A t \in TaskIds : state[t] = "success"
             \/ \E t \in Stages : state[t] = "failed")
    /\ FetchManyBudgets

\* No try of fetch_weather_data got a row for either of its two locations:
\* the task failed after its third try and the run ended, failed.
C29_Witness ==
    /\ \A t \in TaskIds : state[t] \in Finished
    /\ Cardinality(outlet) = 2
    /\ xcom.outlet_count = <<2>>
    /\ state["fetch_weather_data"] = "failed"
    /\ error["fetch_weather_data"] = "EmptyFetchResult"
    /\ state["end"] = "upstream_failed"

\* ------------------------------------------------------- load_csv_data.py
\* A CSV file of the mapping: missing from the data directory, unreadable
\* (pd.read_csv raises), or readable with rows data rows (0: an empty file or
\* a header only).
CsvFiles ==
    { [exists |-> FALSE, readable |-> FALSE, rows |-> 0],
      [exists |-> TRUE, readable |-> FALSE, rows |-> 0] }
    \cup { [exists |-> TRUE, readable |-> TRUE, rows |-> n] : n \in 0..MaxCsvRows }

NoDataDir ==
    [exists |-> FALSE,
     files |-> [i \in 1..MaxFiles |->
                  [exists |-> FALSE, readable |-> FALSE, rows |-> 0]]]

DataDirs ==
    { NoDataDir } \cup [exists : {TRUE}, files : [1..MaxFiles -> CsvFiles]]

\* truncate_table: TRUNCATE TABLE committed, or the exception is logged and
\* False returned to a caller that does not look at it.
truncate_table(n, fails) == IF fails THEN n ELSE 0

\* One pass of the for loop of load_all_csv_files on a file that exists:
\* truncate if requested, read_csv_file, load_dataframe_to_db (an empty
\* DataFrame is skipped with 0 rows loaded), get_table_count. fault is the
\* warehouse statement that raises: 0 none, 1 the TRUNCATE, 2 df.to_sql,
\* 3 the count. An exception of read_csv_file or df.to_sql goes to the
\* except clause of the loop.
load_one(f, n, truncate, fault) ==
    LET t1 == IF truncate THEN truncate_table(n, fault = 1) ELSE n IN
    IF ~f.readable
      THEN [table |-> t1, result |-> <<0, 0>>, ok |-> FALSE]
    ELSE IF f.rows = 0
      THEN [table |-> t1, result |-> <<0, get_table_count(t1, fault = 3)>>,
            ok |-> TRUE]
    ELSE IF fault = 2
      THEN [table |-> t1, result |-> <<0, 0>>, ok |-> FALSE]
    ELSE [table |-> t1 + f.rows,
          result |-> <<f.rows, get_table_count(t1 + f.rows, fault = 3)>>,
          ok |-> TRUE]

\* if all(loaded > 0 or total == 0 for loaded, total in results.values()):
\*     sys.exit(0)  else: sys.exit(1)
exit_code(res) ==
    IF \A i \in DOMAIN res : res[i][1] > 0 \/ res[i][2] = 0 THEN 0 ELSE 1

InitLoader ==
    /\ outlet = {} /\ weather = <<>>
    /\ server = [bodies |-> {}, errors |-> {}]
    /\ db_faults = 0
    /\ AirflowIdle
    /\ ClientIdle
    /\ spc = "idle" /\ store_log = <<>>
    /\ data_dir \in DataDirs
    /\ raw_tables \in [1..MaxFiles -> 0..MaxCsvRows]
    /\ opt_truncate \in BOOLEAN
    /\ lpc = "main" /\ file_no = 0 /\ results = <<>>
    /\ success_count = 0 /\ error_count = 0 /\ exit_status = NULL

LoaderFrame ==
    UNCHANGED <<dbVars, server, airflowVars, report, clientVars, obsVars,
                storeVars, data_dir, opt_truncate>>

\* main up to the for loop of load_all_csv_files: test_connection failing
\* ends the process with sys.exit(1); a missing data directory raises
\* FileNotFoundError, which main catches as a fatal error and exits with 1.
LoaderStart ==
    /\ lpc = "main"
    /\ \E qfail \in Faults(1) :
         /\ db_faults' = db_faults + qfail
         /\ IF qfail = 1 \/ ~data_dir.exists
            THEN lpc' = "exited" /\ exit_status' = Some(1) /\ file_no' = file_no
            ELSE lpc' = "loop" /\ exit_status' = exit_status /\ file_no' = 1
    /\ UNCHANGED <<raw_tables, results, success_count, error_count>>
    /\ LoaderFrame

\* One pass of the for loop of load_all_csv_files.
LoadFile ==
    /\ lpc = "loop"
    /\ file_no <= MaxFiles
    /\ LET f == data_dir.files[file_no] IN
       IF ~f.exists
       THEN /\ results' = Append(results, <<0, 0>>)
            /\ error_count' = error_count + 1
            /\ UNCHANGED <<raw_tables, success_count, db_faults>>
       ELSE \E fault \in Faults(3) :
            LET r == load_one(f, raw_tables[file_no], opt_truncate, fault)
                raised == \/ fault = 1 /\ opt_truncate
                          \/ fault = 2 /\ f.readable /\ f.rows > 0
                          \/ fault = 3 /\ r.ok
            IN  /\ fault # 0 => raised
                /\ db_faults' = IF raised THEN db_faults + 1 ELSE db_faults
                /\ raw_tables' = [raw_tables EXCEPT ![file_no] = r.table]
                /\ results' = Append(results, r.result)
                /\ success_count' = IF r.ok THEN success_count + 1
                                    ELSE success_count
                /\ error_count' = IF r.ok THEN error_count
                                  ELSE error_count + 1
    /\ file_no' = file_no + 1
    /\ UNCHANGED <<lpc, exit_status>>
    /\ LoaderFrame

\* After the loop: print_summary, return results, and main's exit code.
LoaderExit ==
    /\ lpc = "loop"
    /\ file_no > MaxFiles
    /\ exit_status' = Some(exit_code(results))
    /\ lpc' = "exited"
    /\ UNCHANGED <<db_faults, raw_tables, file_no, results, success_count,
                   error_count>>
    /\ LoaderFrame

\* Ctrl-C while the loader runs: KeyboardInterrupt passes the except
\* Exception clause of the loop and main exits with 130.
LoaderInterrupt ==
    /\ lpc \in {"main", "loop"}
    /\ exit_status' = Some(130)
    /\ lpc' = "exited"
    /\ UNCHANGED <<db_faults, raw_tables, file_no, results, success_count,
                   error_count>>
    /\ LoaderFrame

NextLoader == LoaderStart \/ LoadFile \/ LoaderExit \/ LoaderInterrupt

SpecLoader == InitLoader /\ [][NextLoader]_vars

\* C30: when the loader has exited with status 0, no file of the mapping
\* failed to load: error_count is 0.
C30_ExitZeroOnlyWithoutFailures ==
    exit_status = Some(0) => error_count = 0

====
